---- MODULE Spec2Model ----
(***************************************************************************)
(* Model of src/opcdriver.py: the OPC driver run (argument check, connect, *)
(* read, export, random mutation, load, final read, disconnect).           *)
(*                                                                         *)
(* Values are records [cls, n, s]: cls is the Python class of the value,   *)
(* n its number (a bool is 0/1, a float is held in tenths), s its text.    *)
(* Texts (str(), JSON tokens, messages) are real strings, built and parsed *)
(* character by character.                                                 *)
(***************************************************************************)
EXTENDS Integers, Sequences, FiniteSets, TLC

VARIABLES pc, hostGiven, server, hasClient, connected, entered, variables,
          files, log, exitStatus, exc, i, acc, variable, variable_type,
          loadFailK, preLoad, cvParts, cvValue, cvResult

vars == <<pc, hostGiven, server, hasClient, connected, entered, variables,
          files, log, exitStatus, exc, i, acc, variable, variable_type,
          loadFailK, preLoad, cvParts, cvValue, cvResult>>

\* The run of the script.
run == <<pc, hostGiven, server, hasClient, connected, entered, variables,
         files, log, exitStatus, exc, i, acc, variable, variable_type,
         loadFailK, preLoad>>

\* One call of _convert_value on its own: the words the browse name of the
\* type is made of, the value, and what the call gave.
cv == <<cvParts, cvValue, cvResult>>

\* Largest number of children of the Tags container.
MaxVars == 2

\* random.uniform(-10, 10): the half-width of the perturbation range.
UniformBound == 10

(***************************************************************************)
(* Values and texts                                                        *)
(***************************************************************************)
BoolV(b)  == [cls |-> "bool",  n |-> IF b THEN 1 ELSE 0, s |-> ""]
IntV(k)   == [cls |-> "int",   n |-> k, s |-> ""]
FloatV(t) == [cls |-> "float", n |-> t, s |-> ""]
StrV(t)   == [cls |-> "str",   n |-> 0, s |-> t]
NoV       == [cls |-> "none",  n |-> 0, s |-> ""]

Abs(k) == IF k < 0 THEN -k ELSE k

\* Python's `sub in text`.
Contains(text, sub) ==
    \E p \in 1..(Len(text) - Len(sub) + 1) : SubSeq(text, p, p + Len(sub) - 1) = sub

Digit(d) == SubSeq("0123456789", d + 1, d + 1)

IsDigit(c) == \E d \in 0..9 : Digit(d) = c

DigitVal(c) == CHOOSE d \in 0..9 : Digit(d) = c

RECURSIVE NatToStr(_)
NatToStr(k) == IF k < 10 THEN Digit(k) ELSE NatToStr(k \div 10) \o Digit(k % 10)

\* str(int), and the JSON token of an int.
IntToStr(k) == IF k < 0 THEN "-" \o NatToStr(-k) ELSE NatToStr(k)

\* repr(float) of a float held in tenths: always carries a decimal point.
FloatToStr(t) ==
    (IF t < 0 THEN "-" ELSE "") \o NatToStr(Abs(t) \div 10) \o "." \o Digit(Abs(t) % 10)

RECURSIVE StrToNat(_)
StrToNat(t) ==
    IF Len(t) = 0 THEN 0
    ELSE StrToNat(SubSeq(t, 1, Len(t) - 1)) * 10 + DigitVal(SubSeq(t, Len(t), Len(t)))

StrToInt(t) ==
    IF SubSeq(t, 1, 1) = "-" THEN -StrToNat(SubSeq(t, 2, Len(t))) ELSE StrToNat(t)

\* The text of a float token back to tenths.
StrToFloat(t) ==
    LET neg  == SubSeq(t, 1, 1) = "-"
        body == IF neg THEN SubSeq(t, 2, Len(t)) ELSE t
        dot  == CHOOSE p \in 1..Len(body) : SubSeq(body, p, p) = "."
        mag  == StrToNat(SubSeq(body, 1, dot - 1)) * 10
                  + StrToNat(SubSeq(body, dot + 1, Len(body)))
    IN  IF neg THEN -mag ELSE mag

\* str(value)
PyStr(v) ==
    CASE v.cls = "bool"  -> IF v.n = 1 THEN "True" ELSE "False"
      [] v.cls = "int"   -> IntToStr(v.n)
      [] v.cls = "float" -> FloatToStr(v.n)
      [] OTHER           -> v.s

\* bool(value)
PyBool(v) ==
    CASE v.cls = "str" -> BoolV(v.s # "")
      [] OTHER         -> BoolV(v.n # 0)

\* json.dump of one value.
JsonEnc(v) ==
    CASE v.cls = "bool"  -> IF v.n = 1 THEN "true" ELSE "false"
      [] v.cls = "int"   -> IntToStr(v.n)
      [] v.cls = "float" -> FloatToStr(v.n)
      [] OTHER           -> "\"" \o v.s \o "\""

\* json.load of one value token.
JsonDec(t) ==
    IF t = "true" THEN BoolV(TRUE)
    ELSE IF t = "false" THEN BoolV(FALSE)
    ELSE IF SubSeq(t, 1, 1) = "\"" THEN StrV(SubSeq(t, 2, Len(t) - 1))
    ELSE IF Contains(t, ".") THEN FloatV(StrToFloat(t))
    ELSE IntV(StrToInt(t))

\* A file holds a JSON array of objects: each keeps the keys of its entry,
\* with the value as a JSON token.
JsonDump(entries) ==
    [k \in 1..Len(entries) |->
        IF "node_id" \in DOMAIN entries[k]
        THEN [name    |-> entries[k].name,
              node_id |-> entries[k].node_id,
              text    |-> JsonEnc(entries[k].value)]
        ELSE [name |-> entries[k].name, text |-> JsonEnc(entries[k].value)]]

JsonLoad(content) ==
    [k \in 1..Len(content) |->
        IF "node_id" \in DOMAIN content[k]
        THEN [name    |-> content[k].name,
              node_id |-> content[k].node_id,
              value   |-> JsonDec(content[k].text)]
        ELSE [name |-> content[k].name, value |-> JsonDec(content[k].text)]]

NoFile == [exists |-> FALSE, content |-> <<>>]

File(content) == [exists |-> TRUE, content |-> content]

(***************************************************************************)
(* The server: the children of the Tags container                          *)
(***************************************************************************)
Node(name, dtype, value) == [name |-> name, dtype |-> dtype, value |-> value]

\* Nodes a WinCC panel can expose: display name, browse name of the data
\* type, current value.
NodePool ==
    { Node("Tag_A", "0:Int16", IntV(10)),
      Node("Tag_ScreenNumber", "0:UInt32", IntV(3)),
      Node("@DiagnosticsIndicatorTag", "0:Boolean", BoolV(TRUE)),
      Node("Tag_B", "0:Boolean", BoolV(FALSE)),
      Node("Tag_F", "0:Float", FloatV(35)),
      Node("Tag_S", "0:String", StrV("x")) }

\* The container lists up to MaxVars children, in any order; display names
\* are unique within the container.
ServerConfigs ==
    {c \in UNION { [1..k -> NodePool] : k \in 0..MaxVars } :
        \A a, b \in 1..Len(c) : c[a].name = c[b].name => a = b}

\* get_child([f'3:${name}']) of load_variables: the first child carrying that
\* name (a lookup that finds none is one of the failures of load_entry).
FirstNamed(name) ==
    IF \E j \in 1..Len(server) : server[j].name = name
    THEN CHOOSE j \in 1..Len(server) :
            /\ server[j].name = name
            /\ \A h \in 1..(j - 1) : server[h].name # name
    ELSE 0

(***************************************************************************)
(* The log of observable events: remote calls, prints, raised errors       *)
(***************************************************************************)
Ev(op, idx, ok, val) == [op |-> op, idx |-> idx, ok |-> ok, val |-> val]

PrintEv(text) == Ev("print", 0, TRUE, StrV(text))

\* An exception in flight: its class and str(e).
Exc(type, msg) == [set |-> TRUE, type |-> type, msg |-> msg]

NoExc == [set |-> FALSE, type |-> "", msg |-> ""]

\* _convert_value not called yet.
NotCalled == [called |-> FALSE, ok |-> FALSE, val |-> NoV]

CountOp(lg, op) == Cardinality({p \in 1..Len(lg) : lg[p].op = op})

(***************************************************************************)
(* random_values                                                           *)
(***************************************************************************)
excluded_variables == {"@DiagnosticsIndicatorTag", "Tag_ScreenNumber"}

\* perturb_entry without the test on excluded_variables.
perturb_entry_no_exclusion(e, b, u) ==
    IF e.value.cls = "bool"
    THEN [e EXCEPT !.value = BoolV(b)]
    ELSE IF e.value.cls \in {"int", "float"}
         THEN [e EXCEPT !.value =
                   FloatV((IF e.value.cls = "int" THEN e.value.n * 10 ELSE e.value.n) + u)]
         ELSE e

\* perturb_entry with the numeric test placed before the bool test (a bool
\* is an int in Python: True + u is a float).
perturb_entry_numeric_first(e, b, u) ==
    IF e.name \notin excluded_variables
    THEN IF e.value.cls \in {"bool", "int", "float"}
         THEN [e EXCEPT !.value =
                   FloatV((IF e.value.cls = "float" THEN e.value.n ELSE e.value.n * 10) + u)]
         ELSE e
    ELSE e

\* One entry of the loop of random_values; b and u are the draws of
\* random.choice([True, False]) and random.uniform(-10, 10) (u in tenths).
perturb_entry(e, b, u) ==
    IF e.name \notin excluded_variables
    THEN IF e.value.cls = "bool"
         THEN [e EXCEPT !.value = BoolV(b)]
         ELSE IF e.value.cls \in {"int", "float"}
              THEN [e EXCEPT !.value =
                        FloatV((IF e.value.cls = "int" THEN e.value.n * 10 ELSE e.value.n) + u)]
              ELSE e
    ELSE e

\* Draws of random.uniform(-10, 10), in tenths: both ends and a fraction.
UniformDraws == {-(UniformBound * 10), 5, UniformBound * 10}

\* The draws the loop can make for an entry: random.choice is called for a
\* bool only, random.uniform for an int or a float only.
DrawsFor(e) ==
    [b : IF e.value.cls = "bool" THEN BOOLEAN ELSE {FALSE},
     u : IF e.value.cls \in {"int", "float"} THEN UniformDraws ELSE {0}]

DrawSeqs(entries) ==
    {d \in [1..Len(entries) -> [b : BOOLEAN, u : UniformDraws \cup {0}]] :
        \A k \in 1..Len(entries) : d[k] \in DrawsFor(entries[k])}

\* The loop written as a filter: excluded entries are left out of the result.
perturb_drop_excluded(entries, draws) ==
    LET kept == SelectSeq(entries, LAMBDA e : e.name \notin excluded_variables)
    IN  [k \in 1..Len(kept) |-> perturb_entry(kept[k], draws[k].b, draws[k].u)]

\* The loop of random_values over the loaded list.
perturb(entries, draws) ==
    [k \in 1..Len(entries) |-> perturb_entry(entries[k], draws[k].b, draws[k].u)]

(***************************************************************************)
(* OCUDriver                                                               *)
(***************************************************************************)
\* The calls of __init__, in order.
ConnectSteps ==
    <<"Client", "connect", "get_root_node", "get_objects_node", "get_child", "get_children">>

StepIndex(step) == CHOOSE p \in 1..Len(ConnectSteps) : ConnectSteps[p] = step

\* __init__ with an except branch that does not re-raise.
OCUDriver_init_swallow(failAt) ==
    LET last == IF failAt = 0 THEN Len(ConnectSteps) ELSE failAt
    IN  [ events    |-> [p \in 1..last |-> Ev(ConnectSteps[p], 0, p # failAt, NoV)],
          hasClient |-> failAt # StepIndex("Client"),
          connected |-> failAt = 0 \/ failAt > StepIndex("connect"),
          raised    |-> NoExc ]

\* __init__ with the call failAt raising (0: none does): the calls made, what
\* the object holds afterwards and the exception it raises ("" for none).
OCUDriver_init(failAt) ==
    LET last == IF failAt = 0 THEN Len(ConnectSteps) ELSE failAt
    IN  [ events    |-> [p \in 1..last |-> Ev(ConnectSteps[p], 0, p # failAt, NoV)],
          hasClient |-> failAt # StepIndex("Client"),
          connected |-> failAt = 0 \/ failAt > StepIndex("connect"),
          raised    |-> IF failAt = 0 THEN NoExc
                        ELSE Exc("Exception", "Error connecting to the server: "
                                                \o ConnectSteps[failAt] \o " failed") ]

\* disconnect() with the hasattr test inverted.
disconnect_inverted(has) == IF ~has THEN <<Ev("disconnect", 0, TRUE, NoV)>> ELSE <<>>

\* disconnect(): the calls it makes.
disconnect(has) == IF has THEN <<Ev("disconnect", 0, TRUE, NoV)>> ELSE <<>>

\* The type test with the Float branch placed before the Integer one.
TypeCategory_float_first(browse) ==
    IF Contains(browse, "Boolean") THEN "Boolean"
    ELSE IF Contains(browse, "Float") THEN "Float"
         ELSE IF Contains(browse, "Int") \/ Contains(browse, "SByte")
                   \/ Contains(browse, "UInteger")
              THEN "Integer"
              ELSE "Unsupported"

\* The type test of _convert_value on the browse name of the type node.
TypeCategory(browse) ==
    IF Contains(browse, "Boolean") THEN "Boolean"
    ELSE IF Contains(browse, "Int") \/ Contains(browse, "SByte") \/ Contains(browse, "UInteger")
         THEN "Integer"
         ELSE IF Contains(browse, "Float") THEN "Float"
              ELSE "Unsupported"

\* _convert_value whose else branch returns the value instead of raising.
convert_value_no_raise(browse, value) ==
    LET cat == TypeCategory(browse)
    IN  CASE cat = "Boolean" -> [ok |-> TRUE, val |-> PyBool(value)]
          [] cat = "Integer" -> [ok |-> TRUE, val |-> StrV(PyStr(value))]
          [] OTHER           -> [ok |-> TRUE, val |-> value]

\* _convert_value once the browse name is known: the value handed to
\* set_value, or the ValueError.
convert_value(browse, value) ==
    LET cat == TypeCategory(browse)
    IN  CASE cat = "Boolean" -> [ok |-> TRUE, val |-> PyBool(value)]
          [] cat = "Integer" -> [ok |-> TRUE, val |-> StrV(PyStr(value))]
          [] cat = "Float"   -> [ok |-> TRUE, val |-> value]
          [] OTHER           -> [ok |-> FALSE, val |-> NoV]

\* The remote calls of one iteration of load_variables, in order.
LoadSteps == <<"get_child", "get_data_type", "get_node", "get_browse_name", "set_value">>

LoadStepIndex(step) == CHOOSE p \in 1..Len(LoadSteps) : LoadSteps[p] = step

\* One iteration of the loop of load_variables on entry k, with the remote
\* call failAt raising (0: none does).
load_entry(k, entry, failAt) ==
    LET j       == FirstNamed(entry.name)
        dtype   == server[j].dtype
        conv    == convert_value(dtype, entry.value)
        \* the last remote call made
        reach   == IF failAt # 0 /\ failAt < LoadStepIndex("set_value") THEN failAt
                   ELSE IF conv.ok THEN LoadStepIndex("set_value")
                        ELSE LoadStepIndex("get_browse_name")
        calls   == [p \in 1..reach |->
                      Ev(LoadSteps[p], k, p # failAt,
                         IF p = LoadStepIndex("set_value") THEN conv.val ELSE NoV)]
        unsupp  == reach = LoadStepIndex("get_browse_name") /\ failAt # reach /\ ~conv.ok
        failed  == (failAt # 0 /\ failAt <= reach) \/ unsupp
    IN  [ events  |-> IF unsupp THEN Append(calls, Ev("ValueError", k, FALSE, NoV)) ELSE calls,
          failed  |-> failed,
          raised  |-> IF unsupp THEN Exc("ValueError", "Unsupported variable type: " \o dtype)
                      ELSE IF failed THEN Exc("Exception", LoadSteps[failAt] \o " failed")
                           ELSE NoExc,
          typed   |-> reach >= LoadStepIndex("get_data_type")
                        /\ failAt # LoadStepIndex("get_data_type"),
          dtype   |-> dtype,
          node    |-> j,
          wrote   |-> reach = LoadStepIndex("set_value") /\ ~failed,
          val     |-> conv.val ]

\* The try placed inside the loop: a failed entry is skipped.
load_next_continue(failed) == "load_loop"

\* try: for ...: except: where the loop goes after an iteration.
load_next(failed) == IF failed THEN "load_except" ELSE "load_loop"

\* The remote reads of one iteration of get_variables / export_variables on
\* handle h, with the call failAt raising (0: none does).
ReadSteps == <<"get_display_name", "get_value">>

\* The reads of a handle preceded by a fresh listing of the container.
read_handle_requery(h, failAt) ==
    <<Ev("get_children", 0, TRUE, NoV)>> \o
    [p \in 1..(IF failAt = 0 THEN Len(ReadSteps) ELSE failAt) |->
        Ev(ReadSteps[p], h, p # failAt, NoV)]

read_handle(h, failAt) ==
    [p \in 1..(IF failAt = 0 THEN Len(ReadSteps) ELSE failAt) |->
        Ev(ReadSteps[p], h, p # failAt, NoV)]

\* nodeid.to_string() of child h.
NodeIdStr(h) == "ns=3;i=" \o NatToStr(h)

\* Lines 71-75: the entry get_variables builds for handle h.
snapshot_entry(h) ==
    [name    |-> server[h].name,
     node_id |-> NodeIdStr(h),
     value   |-> server[h].value]

\* An export entry that also carries the node identifier.
export_entry_full(h) ==
    [name    |-> server[h].name,
     node_id |-> NodeIdStr(h),
     value   |-> server[h].value]

\* Lines 81-84: the entry export_variables builds for handle h.
export_entry(h) == [name |-> server[h].name, value |-> server[h].value]

\* random_values writing its result over variables.json.
random_values_in_place(fs, failAt, draws) ==
    LET copied == [fs EXCEPT !.copy = File(fs.vars.content)]
        out    == perturb(JsonLoad(copied.copy.content), draws)
    IN  IF failAt = 1 THEN fs
        ELSE IF failAt \in {2, 3} THEN copied
             ELSE [copied EXCEPT !.vars = File(JsonDump(out))]

\* random_values on the files, with the file operation failAt raising
\* (0: none, 1: shutil.copy, 2: open for reading, 3: open for writing).
random_values(fs, failAt, draws) ==
    LET copied == [fs EXCEPT !.copy = File(fs.vars.content)]
        out    == perturb(JsonLoad(copied.copy.content), draws)
    IN  IF failAt = 1 THEN fs
        ELSE IF failAt \in {2, 3} THEN copied
             ELSE [copied EXCEPT !.copy = File(JsonDump(out))]

(***************************************************************************)
(* The run: __main__                                                       *)
(***************************************************************************)
Init ==
    /\ pc = "main"
    /\ hostGiven \in BOOLEAN
    /\ server \in ServerConfigs
    /\ hasClient = FALSE
    /\ connected = FALSE
    /\ entered = FALSE
    /\ variables = <<>>
    /\ files = [vars |-> NoFile, copy |-> NoFile]
    /\ log = <<>>
    /\ exitStatus = -1
    /\ exc = NoExc
    /\ i = 0
    /\ acc = <<>>
    /\ variable = 0
    /\ variable_type = ""
    /\ loadFailK = 0
    /\ preLoad = <<>>
    /\ cvParts = <<>>
    /\ cvValue = NoV
    /\ cvResult = NotCalled

\* The argument check without its exit(1).
Main_no_exit ==
    /\ pc = "main"
    /\ IF ~hostGiven
       THEN log' = log \o <<PrintEv("Server address is required"),
                            Ev("print_help", 0, TRUE, NoV)>>
       ELSE UNCHANGED log
    /\ pc' = "init"
    /\ UNCHANGED cv
    /\ UNCHANGED <<hostGiven, server, hasClient, connected, entered, variables, files,
                   exitStatus, exc, i, acc, variable, variable_type, loadFailK, preLoad>>

\* Lines 116-124: the argument check.
Main ==
    /\ pc = "main"
    /\ IF ~hostGiven
       THEN /\ log' = log \o <<PrintEv("Server address is required"),
                               Ev("print_help", 0, TRUE, NoV)>>
            /\ pc' = "done"
            /\ exitStatus' = 1
       ELSE /\ pc' = "init"
            /\ UNCHANGED <<log, exitStatus>>
    /\ UNCHANGED cv
    /\ UNCHANGED <<hostGiven, server, hasClient, connected, entered, variables, files,
                   exc, i, acc, variable, variable_type, loadFailK, preLoad>>

\* Line 128: OCUDriver(...) and __enter__.
Connect ==
    /\ pc = "init"
    /\ \E failAt \in 0..Len(ConnectSteps) :
         LET r == OCUDriver_init(failAt)
         IN  /\ log' = log \o r.events
             /\ hasClient' = r.hasClient
             /\ connected' = r.connected
             /\ exc' = r.raised
             /\ IF r.raised.set
                THEN /\ pc' = "except"
                     /\ UNCHANGED <<entered, variables, i>>
                ELSE /\ pc' = "get1"
                     /\ entered' = TRUE
                     /\ variables' = [k \in 1..Len(server) |-> k]
                     /\ i' = 1
    /\ UNCHANGED cv
    /\ UNCHANGED <<hostGiven, server, files, exitStatus, acc, variable, variable_type,
                   loadFailK, preLoad>>

\* Lines 69-75: one iteration of the loop of get_variables.
GetVariablesIter ==
    /\ pc \in {"get1", "get2"}
    /\ i <= Len(variables)
    /\ \E failAt \in 0..Len(ReadSteps) :
         /\ log' = log \o read_handle(variables[i], failAt)
         /\ IF failAt = 0
            THEN /\ acc' = Append(acc, snapshot_entry(variables[i]))
                 /\ i' = i + 1
                 /\ UNCHANGED <<pc, exc>>
            ELSE /\ exc' = Exc("Exception", ReadSteps[failAt] \o " failed")
                 /\ pc' = "exit"
                 /\ UNCHANGED <<acc, i>>
    /\ UNCHANGED cv
    /\ UNCHANGED <<hostGiven, server, hasClient, connected, entered, variables, files,
                   exitStatus, variable, variable_type, loadFailK, preLoad>>

\* Lines 76, 131 and 143: get_variables returns and the list is printed.
GetVariablesReturn ==
    /\ pc \in {"get1", "get2"}
    /\ i > Len(variables)
    /\ log' = Append(log, Ev("print_variables", Len(acc), TRUE, NoV))
    /\ pc' = IF pc = "get1" THEN "export" ELSE "exit"
    /\ i' = 1
    /\ acc' = <<>>
    /\ UNCHANGED cv
    /\ UNCHANGED <<hostGiven, server, hasClient, connected, entered, variables, files,
                   exitStatus, exc, variable, variable_type, loadFailK, preLoad>>

\* Lines 80-84: one iteration of the loop of export_variables.
ExportIter ==
    /\ pc = "export"
    /\ i <= Len(variables)
    /\ \E failAt \in 0..Len(ReadSteps) :
         /\ log' = log \o read_handle(variables[i], failAt)
         /\ IF failAt = 0
            THEN /\ acc' = Append(acc, export_entry(variables[i]))
                 /\ i' = i + 1
                 /\ UNCHANGED <<pc, exc>>
            ELSE /\ exc' = Exc("Exception", ReadSteps[failAt] \o " failed")
                 /\ pc' = "exit"
                 /\ UNCHANGED <<acc, i>>
    /\ UNCHANGED cv
    /\ UNCHANGED <<hostGiven, server, hasClient, connected, entered, variables, files,
                   exitStatus, variable, variable_type, loadFailK, preLoad>>

\* Lines 85-86: the list is written to variables.json.
ExportWrite ==
    /\ pc = "export"
    /\ i > Len(variables)
    /\ \E ok \in BOOLEAN :
         /\ log' = Append(log, Ev("write_variables_json", 0, ok, NoV))
         /\ IF ok
            THEN /\ files' = [files EXCEPT !.vars = File(JsonDump(acc))]
                 /\ pc' = "random"
                 /\ UNCHANGED exc
            ELSE /\ exc' = Exc("OSError", "variables.json")
                 /\ pc' = "exit"
                 /\ UNCHANGED files
    /\ acc' = <<>>
    /\ UNCHANGED cv
    /\ UNCHANGED <<hostGiven, server, hasClient, connected, entered, variables,
                   exitStatus, i, variable, variable_type, loadFailK, preLoad>>

\* Line 137: random_values().
RandomValues ==
    /\ pc = "random"
    /\ \E failAt \in 0..3, draws \in DrawSeqs(JsonLoad(files.vars.content)) :
         /\ files' = random_values(files, failAt, draws)
         /\ log' = Append(log, Ev("random_values", failAt, failAt = 0, NoV))
         /\ IF failAt = 0
            THEN /\ pc' = "load"
                 /\ UNCHANGED exc
            ELSE /\ exc' = Exc("OSError", IF failAt = 1 THEN "variables.json"
                                          ELSE "variables_copy.json")
                 /\ pc' = "exit"
    /\ UNCHANGED cv
    /\ UNCHANGED <<hostGiven, server, hasClient, connected, entered, variables,
                   exitStatus, i, acc, variable, variable_type, loadFailK, preLoad>>

\* Lines 90-91: load_variables opens and parses the file.
LoadOpen ==
    /\ pc = "load"
    /\ preLoad' = server
    /\ \E ok \in BOOLEAN :
         /\ log' = Append(log, Ev("read_variables_copy_json", 0, ok, NoV))
         /\ IF ok
            THEN /\ acc' = JsonLoad(files.copy.content)
                 /\ pc' = load_next(FALSE)
                 /\ UNCHANGED exc
            ELSE /\ exc' = Exc("OSError", "variables_copy.json")
                 /\ pc' = load_next(TRUE)
                 /\ UNCHANGED acc
    /\ i' = 1
    /\ UNCHANGED cv
    /\ UNCHANGED <<hostGiven, server, hasClient, connected, entered, variables, files,
                   exitStatus, variable, variable_type, loadFailK>>

\* Lines 92-95: one iteration of the loop of load_variables.
LoadIter ==
    /\ pc = "load_loop"
    /\ i <= Len(acc)
    /\ \E failAt \in 0..Len(LoadSteps) :
         LET r == load_entry(i, acc[i], failAt)
         IN  /\ log' = log \o r.events
             /\ variable' = i
             /\ variable_type' = IF r.typed THEN r.dtype ELSE variable_type
             /\ server' = IF r.wrote THEN [server EXCEPT ![r.node].value = r.val] ELSE server
             /\ pc' = load_next(r.failed)
             /\ exc' = IF pc' = "load_except" THEN r.raised ELSE NoExc
             /\ i' = IF pc' = "load_except" THEN i ELSE i + 1
             /\ loadFailK' = IF r.failed /\ loadFailK = 0 THEN i ELSE loadFailK
    /\ UNCHANGED cv
    /\ UNCHANGED <<hostGiven, hasClient, connected, entered, variables, files,
                   exitStatus, acc, preLoad>>

\* The loop of load_variables ends; load_variables returns.
LoadReturn ==
    /\ pc = "load_loop"
    /\ i > Len(acc)
    /\ pc' = "after_load"
    /\ UNCHANGED cv
    /\ UNCHANGED <<hostGiven, server, hasClient, connected, entered, variables, files,
                   log, exitStatus, exc, i, acc, variable, variable_type, loadFailK,
                   preLoad>>

\* Lines 96-98: the except branch of load_variables. The debugger stops
\* the run; the operator continues or quits (BdbQuit). The print reads the
\* loop's variable and variable_type, unbound when no iteration set them.
LoadExcept ==
    /\ pc = "load_except"
    /\ \E dbg \in {"continue", "quit"} :
         LET bp == Ev("pdb.set_trace", variable, TRUE, NoV)
         IN  IF dbg = "quit"
             THEN /\ log' = Append(log, bp)
                  /\ exc' = Exc("BdbQuit", "")
                  /\ pc' = "exit"
             ELSE IF variable = 0 \/ variable_type = ""
                  THEN /\ log' = Append(log, bp)
                       /\ exc' = Exc("UnboundLocalError",
                                     IF variable = 0 THEN "variable" ELSE "variable_type")
                       /\ pc' = "exit"
                  ELSE /\ log' = log \o <<bp,
                              Ev("print_load_error", variable, TRUE,
                                 StrV("Error loading variable " \o acc[variable].name
                                        \o ", with type " \o variable_type
                                        \o ": " \o exc.msg))>>
                       /\ exc' = NoExc
                       /\ pc' = "after_load"
    /\ UNCHANGED cv
    /\ UNCHANGED <<hostGiven, server, hasClient, connected, entered, variables, files,
                   exitStatus, i, acc, variable, variable_type, loadFailK, preLoad>>

\* Line 141 preceded by an explicit driver.disconnect().
AfterLoad_disconnects ==
    /\ pc = "after_load"
    /\ log' = log \o disconnect(hasClient) \o <<PrintEv("Updated variables")>>
    /\ connected' = FALSE
    /\ pc' = "get2"
    /\ i' = 1
    /\ acc' = <<>>
    /\ UNCHANGED cv
    /\ UNCHANGED <<hostGiven, server, hasClient, entered, variables, files,
                   exitStatus, exc, variable, variable_type, loadFailK, preLoad>>

\* Line 141: print("Updated variables"), then the second get_variables.
AfterLoad ==
    /\ pc = "after_load"
    /\ log' = Append(log, PrintEv("Updated variables"))
    /\ pc' = "get2"
    /\ i' = 1
    /\ acc' = <<>>
    /\ UNCHANGED cv
    /\ UNCHANGED <<hostGiven, server, hasClient, connected, entered, variables, files,
                   exitStatus, exc, variable, variable_type, loadFailK, preLoad>>

\* Lines 63-65: the with block is left, normally or by an exception;
\* __exit__ returns None, so a pending exception goes on to line 144.
WithExit ==
    /\ pc = "exit"
    /\ log' = log \o disconnect(hasClient)
    /\ connected' = IF disconnect(hasClient) # <<>> THEN FALSE ELSE connected
    /\ pc' = IF exc.set THEN "except" ELSE "done"
    /\ exitStatus' = IF exc.set THEN exitStatus ELSE 0
    /\ UNCHANGED cv
    /\ UNCHANGED <<hostGiven, server, hasClient, entered, variables, files, exc, i, acc,
                   variable, variable_type, loadFailK, preLoad>>

\* Lines 144-145: the error is printed and the script ends.
MainExcept ==
    /\ pc = "except"
    /\ log' = Append(log, PrintEv("Error: " \o exc.msg))
    /\ pc' = "done"
    /\ exitStatus' = 0
    /\ UNCHANGED cv
    /\ UNCHANGED <<hostGiven, server, hasClient, connected, entered, variables, files,
                   exc, i, acc, variable, variable_type, loadFailK, preLoad>>

Next ==
    \/ Main
    \/ Connect
    \/ GetVariablesIter
    \/ GetVariablesReturn
    \/ ExportIter
    \/ ExportWrite
    \/ RandomValues
    \/ LoadOpen
    \/ LoadIter
    \/ LoadReturn
    \/ LoadExcept
    \/ AfterLoad
    \/ WithExit
    \/ MainExcept

Spec == Init /\ [][Next]_vars

(***************************************************************************)
(* _convert_value on its own, over type names made of the words it tests   *)
(***************************************************************************)
\* Largest number of words in the browse name of a type.
MaxParts == 3

\* The words _convert_value looks for, and one it does not.
TypeWords == <<"Boolean", "Int", "SByte", "UInteger", "Float", "String">>

\* Type names: up to MaxParts different words, in any order.
PartSeqs ==
    {q \in UNION { [1..k -> 1..Len(TypeWords)] : k \in 0..MaxParts } :
        \A a, b \in 1..Len(q) : q[a] = q[b] => a = b}

RECURSIVE JoinWords(_)
JoinWords(q) ==
    IF Len(q) = 0 THEN "" ELSE TypeWords[q[1]] \o JoinWords(SubSeq(q, 2, Len(q)))

\* type_node.get_browse_name().to_string(): namespace index, colon, name.
BrowseName(q) == "0:" \o JoinWords(q)

\* JSON values of each class, truthy and falsy.
ConvertValues ==
    {BoolV(TRUE), BoolV(FALSE), IntV(0), IntV(42), FloatV(31), StrV("x"), StrV("")}

InitConvert ==
    /\ pc = "convert"
    /\ hostGiven = TRUE
    /\ server = <<>>
    /\ hasClient = FALSE
    /\ connected = FALSE
    /\ entered = FALSE
    /\ variables = <<>>
    /\ files = [vars |-> NoFile, copy |-> NoFile]
    /\ log = <<>>
    /\ exitStatus = -1
    /\ exc = NoExc
    /\ i = 0
    /\ acc = <<>>
    /\ variable = 0
    /\ variable_type = ""
    /\ loadFailK = 0
    /\ preLoad = <<>>
    /\ cvParts \in PartSeqs
    /\ cvValue \in ConvertValues
    /\ cvResult = NotCalled

\* Lines 100-110: _convert_value(variable_type, value).
ConvertCall ==
    /\ ~cvResult.called
    /\ cvResult' = [called |-> TRUE,
                    ok     |-> convert_value(BrowseName(cvParts), cvValue).ok,
                    val    |-> convert_value(BrowseName(cvParts), cvValue).val]
    /\ UNCHANGED <<cvParts, cvValue>>
    /\ UNCHANGED run

NextConvert == ConvertCall

SpecConvert == InitConvert /\ [][NextConvert]_vars

(***************************************************************************)
(* Properties                                                              *)
(***************************************************************************)
Positions == 1..Len(log)

\* A call of __init__ (they carry index 0 and come first in the log).
IsConnectCall(p) == p <= Len(ConnectSteps) /\ log[p].idx = 0 /\ log[p].op = ConnectSteps[p]

ConnectFailedAt(p) == IsConnectCall(p) /\ ~log[p].ok

\* The remote calls of load_variables.
IsLoadCall(p) ==
    /\ log[p].idx >= 1
    /\ log[p].op \in {LoadSteps[q] : q \in 1..Len(LoadSteps)} \cup {"ValueError"}

\* Every step of the body of the with block leaves one of these.
BodyOps ==
    {ReadSteps[q] : q \in 1..Len(ReadSteps)} \cup {LoadSteps[q] : q \in 1..Len(LoadSteps)}
      \cup {"print_variables", "write_variables_json", "random_values",
            "read_variables_copy_json", "ValueError", "pdb.set_trace", "print_load_error"}

\* The data type of the node that entry k of the loaded file names.
EntryType(k) == server[FirstNamed(files.copy.content[k].name)].dtype

\* Some step of the run raised.
Failed == \E p \in Positions : ~log[p].ok

\* An optional sign, then digits only.
IsIntString(t) ==
    LET body == IF SubSeq(t, 1, 1) = "-" THEN SubSeq(t, 2, Len(t)) ELSE t
    IN  /\ Len(body) >= 1
        /\ \A p \in 1..Len(body) : IsDigit(SubSeq(body, p, p))

\* C1: once the with block was entered, disconnect is called exactly once
\* on every way out of it (normal end or exception) and the transport is
\* closed afterwards; inside the block it has not been called yet.
C1_DisconnectExactlyOnce ==
    /\ CountOp(log, "disconnect") <= 1
    /\ (entered /\ pc \in {"except", "done"}) =>
           (CountOp(log, "disconnect") = 1 /\ ~connected)
    /\ (entered /\ pc \notin {"except", "done"}) => CountOp(log, "disconnect") = 0

\* A run that left the block by an exception, disconnected once.
C1_Witness ==
    /\ pc = "done"
    /\ entered
    /\ exc.set
    /\ CountOp(log, "disconnect") = 1
    /\ ~connected

\* C2: when connect fails after the transport connection was made, the
\* run ends with the transport disconnected.
C2_PartialConnectReleased ==
    (pc = "done" /\ \E p \in Positions : ConnectFailedAt(p) /\ p > StepIndex("connect"))
        => ~connected

\* C3: load is fail-fast: once entry k failed, no call of load_variables
\* concerns an entry after k, every write that went through concerns an
\* entry before k (at most k-1 of them), and the loop is not resumed.
C3_LoadFailFast ==
    loadFailK # 0 =>
        /\ \A p \in Positions : IsLoadCall(p) => log[p].idx <= loadFailK
        /\ \A p \in Positions :
               (log[p].op = "set_value" /\ log[p].ok) => log[p].idx < loadFailK
        /\ Cardinality({p \in Positions : log[p].op = "set_value" /\ log[p].ok})
               <= loadFailK - 1
        /\ pc # "load_loop"

\* A finished run whose load failed on the first of several entries.
C3_Witness ==
    /\ pc = "done"
    /\ loadFailK = 1
    /\ Len(files.copy.content) >= 2
    /\ \E p \in Positions : IsLoadCall(p) /\ ~log[p].ok

\* C4: when a remote write fails during load, the disconnect precedes the
\* report of that load error.
C4_DisconnectBeforeLoadErrorReport ==
    \A p \in Positions :
        (/\ log[p].op = "print_load_error"
         /\ \E q \in 1..(p - 1) : log[q].op = "set_value" /\ ~log[q].ok)
            => \E q \in 1..(p - 1) : log[q].op = "disconnect"

\* C5: with the host given, a run in which a step failed reports it and
\* ends with a non-zero exit status; a run that ends with status zero had
\* no failure, and "Updated variables" is not printed after a failed load.
C5_FailureExitsNonZero ==
    (pc = "done" /\ hostGiven) =>
        /\ Failed => exitStatus # 0
        /\ Failed => \E p \in Positions : log[p].op \in {"print", "print_load_error"}
        /\ loadFailK # 0 => \A p \in Positions : log[p] # PrintEv("Updated variables")

\* C6: a failure of any step of connect yields no session and one error
\* that carries the cause: the block is never entered, no step of the body
\* runs, and the error raised and printed names the failing step.
C6_ConnectFailureYieldsNoSession ==
    \A p \in Positions :
        ConnectFailedAt(p) =>
            /\ ~entered
            /\ \A q \in Positions : log[q].op \in BodyOps => IsConnectCall(q)
            /\ pc = "except" =>
                   (exc.set /\ Contains(exc.msg, ConnectSteps[p] \o " failed"))
            /\ pc = "done" =>
                   /\ Len(log) = p + 1
                   /\ log[p + 1].op = "print"
                   /\ Contains(log[p + 1].val.s, ConnectSteps[p] \o " failed")
            /\ pc \in {"except", "done"}

\* A finished run whose connect failed at the path resolution.
C6_Witness ==
    /\ pc = "done"
    /\ \E p \in Positions : ConnectFailedAt(p) /\ p = StepIndex("get_child")

\* C7: set_value is never called for an entry whose node type is in no
\* recognized category.
C7_NoWriteForUnsupported ==
    \A p \in Positions :
        log[p].op = "set_value" => TypeCategory(EntryType(log[p].idx)) # "Unsupported"

\* The coercion of an entry failed on its type and no write was attempted.
C7_Witness ==
    \E p \in Positions :
        /\ log[p].op = "ValueError"
        /\ TypeCategory(EntryType(log[p].idx)) = "Unsupported"
        /\ \A q \in Positions : ~(log[q].op = "set_value" /\ log[q].idx = log[p].idx)
        /\ pc = "done"

\* C8 as stated: after connect no operation performs a node-resolution
\* query (get_child / get_children).
C8_NoResolutionAfterConnect ==
    \A p \in Positions :
        log[p].op \in {"get_child", "get_children"} => IsConnectCall(p)

\* C8 as amended: the list of handles is resolved once, at connect time,
\* and get_variables and export_variables reuse it without any resolution
\* query; the only later queries are those of load_variables, one
\* get_child per entry it processes, between the opening of the file and
\* the end of load.
C8_ResolutionOnlyAtConnectAndLoad ==
    /\ \A p \in Positions : log[p].op = "get_children" => IsConnectCall(p)
    /\ \A p \in Positions :
          (log[p].op = "get_child" /\ ~IsConnectCall(p)) =>
              /\ log[p].idx \in 1..Len(files.copy.content)
              /\ \E q \in 1..(p - 1) : log[q].op = "read_variables_copy_json" /\ log[q].ok
              /\ \A q \in 1..(p - 1) : log[q] # PrintEv("Updated variables")
              /\ \A q \in Positions : (log[q].op = "get_child" /\ log[q].idx = log[p].idx) => q = p
    /\ entered => CountOp(log, "get_children") = 1

\* A finished run that read, exported, loaded and read again, with one
\* lookup per loaded entry.
C8_Witness ==
    /\ pc = "done"
    /\ ~exc.set
    /\ Len(variables) >= 2
    /\ \E p \in Positions : log[p] = PrintEv("Updated variables")
    /\ Cardinality({p \in Positions : log[p].op = "get_child" /\ ~IsConnectCall(p)})
           = Len(variables)

\* C9: for an entry whose node type is Integer-family, the value pushed to
\* the server is the string encoding of an integer.
C9_IntegerPushedAsIntegerString ==
    \A p \in Positions :
        (log[p].op = "set_value" /\ TypeCategory(EntryType(log[p].idx)) = "Integer")
            => (log[p].val.cls = "str" /\ IsIntString(log[p].val.s))

\* C10: once random_values has written the copy, every entry whose name
\* is excluded holds in the copy the value it holds in the export.
C10_ExcludedUnchanged ==
    files.copy.exists =>
        /\ Len(files.copy.content) = Len(files.vars.content)
        /\ \A k \in 1..Len(files.copy.content) :
              files.copy.content[k].name \in excluded_variables =>
                  /\ files.copy.content[k].name = files.vars.content[k].name
                  /\ files.copy.content[k].text = files.vars.content[k].text
                  /\ JsonDec(files.copy.content[k].text) = JsonDec(files.vars.content[k].text)

\* random_values ran to its end on an export holding an excluded numeric
\* entry and another entry, which it changed.
C10_Witness ==
    /\ \E p \in Positions : log[p].op = "random_values" /\ log[p].ok
    /\ \E k \in 1..Len(files.copy.content) :
          /\ files.copy.content[k].name \in excluded_variables
          /\ JsonDec(files.copy.content[k].text).cls = "int"
    /\ \E k \in 1..Len(files.copy.content) :
          files.copy.content[k].text # files.vars.content[k].text

\* The words of the type name under test.
CvWords == {TypeWords[cvParts[k]] : k \in 1..Len(cvParts)}

\* The ordered classification, read off the words the name was made of.
CvCategory ==
    IF "Boolean" \in CvWords THEN "Boolean"
    ELSE IF CvWords \cap {"Int", "SByte", "UInteger"} # {} THEN "Integer"
         ELSE IF "Float" \in CvWords THEN "Float"
              ELSE "Unsupported"

\* C11: _convert_value follows the fixed precedence Boolean, then
\* Int / SByte / UInteger, then Float, else failure, on every type name made
\* of these words: bool(value), str(value), the value itself, or ValueError.
C11_ClassificationPrecedence ==
    cvResult.called =>
        CASE CvCategory = "Boolean" ->
                 /\ cvResult.ok
                 /\ cvResult.val.cls = "bool"
                 /\ (cvResult.val.n = 1) <=>
                        ~(cvValue \in {BoolV(FALSE), IntV(0), StrV("")})
          [] CvCategory = "Integer" ->
                 /\ cvResult.ok
                 /\ cvResult.val.cls = "str"
                 /\ cvValue = IntV(42) => cvResult.val.s = "42"
                 /\ cvValue = BoolV(TRUE) => cvResult.val.s = "True"
                 /\ cvValue = FloatV(31) => cvResult.val.s = "3.1"
                 /\ cvValue.cls = "str" => cvResult.val.s = cvValue.s
          [] CvCategory = "Float" -> cvResult.ok /\ cvResult.val = cvValue
          [] OTHER -> ~cvResult.ok

\* A type name holding both "Float" and "Int" was converted as an integer.
C11_Witness ==
    /\ cvResult.called
    /\ {"Float", "Int"} \subseteq CvWords
    /\ "Boolean" \notin CvWords
    /\ cvValue = IntV(42)
    /\ cvResult.ok
    /\ cvResult.val = StrV("42")

\* C12: when load fails on an entry, the failure is logged with the name
\* and the resolved type of that same entry: the type is never the one of
\* an earlier entry, and the context is never undefined.
C12_ErrorContextOfFailingEntry ==
    /\ exc.type # "UnboundLocalError"
    /\ \A p \in Positions :
          log[p].op = "print_load_error" =>
              /\ log[p].idx = loadFailK
              /\ Contains(log[p].val.s,
                          "Error loading variable " \o files.copy.content[loadFailK].name
                            \o ", with type " \o EntryType(loadFailK) \o ": ")
              /\ \E q \in 1..(p - 1) :
                    log[q].op = "get_data_type" /\ log[q].idx = loadFailK /\ log[q].ok

\* random_values ran to its end.
Mutated == \E p \in Positions : log[p].op = "random_values" /\ log[p].ok

ExportedValue(k) == JsonDec(files.vars.content[k].text)

MutatedValue(k) == JsonDec(files.copy.content[k].text)

\* A number in tenths, whatever its class.
Tenths(v) == IF v.cls = "float" THEN v.n ELSE v.n * 10

\* C13: the mutator gives one output entry per input entry, in the same
\* order and with the same name at every position, and an entry whose value
\* is neither a boolean nor a number keeps its value.
C13_OrderAndNamesPreserved ==
    Mutated =>
        /\ Len(files.copy.content) = Len(files.vars.content)
        /\ \A k \in 1..Len(files.vars.content) :
              /\ files.copy.content[k].name = files.vars.content[k].name
              /\ ExportedValue(k).cls \notin {"bool", "int", "float"} =>
                     /\ MutatedValue(k) = ExportedValue(k)
                     /\ files.copy.content[k].text = files.vars.content[k].text

\* The mutator ran on an excluded entry followed by a string entry.
C13_Witness ==
    /\ Mutated
    /\ Len(files.vars.content) >= 2
    /\ files.vars.content[1].name \in excluded_variables
    /\ ExportedValue(2).cls = "str"
    /\ MutatedValue(2) = StrV("x")

\* C14: random_values leaves variables.json as it found it; what it
\* changes goes to variables_copy.json only.
C14_SourceUntouched ==
    [][pc = "random" => files'.vars = files.vars]_vars

\* After random_values the export still holds the values read from the
\* server while the copy holds other ones.
C14_Witness ==
    /\ pc = "load"
    /\ Mutated
    /\ Len(files.vars.content) >= 1
    /\ \A k \in 1..Len(files.vars.content) :
          files.vars.content[k].text = JsonEnc(server[k].value)
    /\ \E k \in 1..Len(files.vars.content) :
          files.copy.content[k].text # files.vars.content[k].text

C16_ClassKeptWithinBound ==
    Mutated =>
        \A k \in 1..Len(files.vars.content) :
            files.vars.content[k].name \notin excluded_variables =>
                /\ ExportedValue(k).cls = "bool" => MutatedValue(k).cls = "bool"
                /\ ExportedValue(k).cls \in {"int", "float"} =>
                       /\ MutatedValue(k).cls \in {"int", "float"}
                       /\ Abs(Tenths(MutatedValue(k)) - Tenths(ExportedValue(k)))
                              <= UniformBound * 10

\* The mutator flipped a boolean and moved an integer by the full bound.
C16_Witness ==
    /\ Mutated
    /\ \E k \in 1..Len(files.vars.content) :
          /\ files.vars.content[k].name \notin excluded_variables
          /\ ExportedValue(k) = BoolV(FALSE)
          /\ MutatedValue(k) = BoolV(TRUE)
    /\ \E k \in 1..Len(files.vars.content) :
          /\ files.vars.content[k].name \notin excluded_variables
          /\ ExportedValue(k).cls = "int"
          /\ Tenths(MutatedValue(k)) - Tenths(ExportedValue(k)) = UniformBound * 10

\* The server as it was when variables.json was written (load is the only
\* step that changes it).
ServerAtExport ==
    IF \E p \in Positions : log[p].op = "read_variables_copy_json" THEN preLoad ELSE server

\* C17 as stated: the export artifact is the full snapshot, one entry with
\* name, node identifier and value per resolved variable.
C17_ExportIsFullSnapshot ==
    files.vars.exists =>
        /\ Len(files.vars.content) = Len(variables)
        /\ \A k \in 1..Len(files.vars.content) :
              {"name", "node_id", "text"} \subseteq DOMAIN files.vars.content[k]

\* C17 as amended: the export artifact is the minimal snapshot, one entry
\* per resolved variable, in order, holding its name and its value and no
\* node identifier; the entries with a node identifier are those that
\* get_variables builds and prints.
C17_ExportIsMinimalSnapshot ==
    /\ files.vars.exists =>
          /\ Len(files.vars.content) = Len(variables)
          /\ \A k \in 1..Len(files.vars.content) :
                /\ DOMAIN files.vars.content[k] = {"name", "text"}
                /\ files.vars.content[k].name = server[variables[k]].name
                /\ ExportedValue(k) = ServerAtExport[variables[k]].value
    /\ pc \in {"get1", "get2"} =>
          \A k \in 1..Len(acc) : DOMAIN acc[k] = {"name", "node_id", "value"}

\* A finished run that exported several variables.
C17_Witness ==
    /\ pc = "done"
    /\ files.vars.exists
    /\ Len(files.vars.content) >= 2
    /\ Len(files.vars.content) = Len(variables)

\* The calls made on remote nodes.
RemoteNodeOps ==
    {ReadSteps[q] : q \in 1..Len(ReadSteps)} \cup {LoadSteps[q] : q \in 1..Len(LoadSteps)}
      \cup {"get_root_node", "get_objects_node", "get_children"}

\* C18: every remote node operation happens while the session is open:
\* after connect() has succeeded and before disconnect, in every run.
C18_RemoteOpsInsideSession ==
    /\ \A p \in Positions :
          log[p].op \in RemoteNodeOps =>
              /\ \E q \in 1..(p - 1) : log[q].op = "connect" /\ log[q].ok
              /\ \A q \in 1..(p - 1) : log[q].op # "disconnect"
    /\ (\E p \in Positions : log[p].op = "disconnect") =>
          pc \in {"except", "done"}

\* A finished run in which a write failed, the final read was made and
\* the disconnect came last among the remote calls.
C18_Witness ==
    /\ pc = "done"
    /\ \E p \in Positions : log[p].op = "set_value" /\ ~log[p].ok
    /\ \E p \in Positions :
          /\ log[p].op = "disconnect"
          /\ \E q \in 1..(p - 1) : log[q] = PrintEv("Updated variables")
          /\ log[p - 1].op = "print_variables"

\* The value load pushed for entry j.
PushedValue(j) ==
    log[CHOOSE p \in Positions : log[p].op = "set_value" /\ log[p].idx = j /\ log[p].ok].val

\* After a failure at entry k the variables of the entries before k hold
\* the written values and those from k on hold their values from before
\* the load.
NoRollback ==
    loadFailK # 0 =>
        \A j \in 1..Len(files.copy.content) :
            LET node == FirstNamed(files.copy.content[j].name)
            IN  IF j < loadFailK
                THEN server[node].value = PushedValue(j)
                ELSE server[node].value = preLoad[node].value

\* C19: load has no rollback: after a failure at entry k the variables of
\* the entries before k hold the written values and those from k on hold
\* their values from before the load; and the run then still makes the
\* final read, inside the session, before it disconnects.
C19_NoRollbackThenFinalRead ==
    (pc = "done" /\ loadFailK # 0) =>
        /\ NoRollback
        /\ \E p \in Positions :
              /\ log[p] = PrintEv("Updated variables")
              /\ \A q \in 1..(p - 1) : log[q].op # "disconnect"
              /\ \E q \in (p + 1)..Len(log) : log[q].op = "disconnect"

====
